---- MODULE Spec2Model ----
(***************************************************************************)
(* Model of the data-processing core of the logistics dashboard:           *)
(*   - logistica_calculos.py : historico_progresso, registrar_progresso,   *)
(*     calcular_previsao_conclusao, calcular_ranking_usuarios              *)
(*   - logistica_processador.py : classificar_status                       *)
(*                                                                         *)
(* Time is counted in ticks; one second has TicksPorSegundo ticks (the     *)
(* sub-second part of datetime.now()).  The history key is the             *)
(* "%Y-%m-%d %H:%M:%S" text of the instant: it drops the sub-second part   *)
(* and is compared as text, field by field (here: minute, second).         *)
(***************************************************************************)
EXTENDS Integers, Sequences, FiniteSets, TLC

VARIABLES
    historico_progresso, \* {timestamp: {deposito: {total, finalizadas, timestamp}}}
    relogio,             \* last value returned by datetime.datetime.now(), in ticks
    chamadas,            \* number of registrar_progresso calls made so far
    carimbos,            \* timestamps (keys) of the registrar_progresso calls made so far
    ultima,              \* arguments and clock reading of the last registrar_progresso call
    previsao,            \* result of calcular_previsao_conclusao in the current render, if any
    df,                  \* the table handed to the table functions (sequence of rows)
    colunas,             \* the column names of df
    classificacao,       \* result of classificar_status for one group of df, if any
    ranking,             \* result of calcular_ranking_usuarios, if any
    hoje,                \* datetime.date.today()
    USAR_NOVA_LOGICA_DATAS, \* the date-filter feature flag of logistica_config
    filtrado,            \* result of a date-window filter call, if any
    dados_processados,   \* result of processar_dados, if any
    dados_cortes         \* result of processar_dados_cortes, if any

vars == <<historico_progresso, relogio, chamadas, carimbos, ultima, previsao,
          df, colunas, classificacao, ranking,
          hoje, USAR_NOVA_LOGICA_DATAS, filtrado, dados_processados, dados_cortes>>

histVars == <<historico_progresso, relogio, chamadas, carimbos, ultima, previsao>>
tabVars == <<df, colunas, classificacao, ranking>>
ambVars == <<hoje, USAR_NOVA_LOGICA_DATAS>>
procVars == <<filtrado, dados_processados, dados_cortes>>

----------------------------------------------------------------------------
(* Bounds *)

TicksPorSegundo == 2
MaxChamadas == 3
MaxChamadasPoda == 22
PeriodoLivre == 10
MaxLinhas == 3
MaxLinhasFiltro == 2
MaxLinhasProc == 2
MaxLinhasCortes == 2
MaxTicksApp == 4

(* Program constant: the cap on the number of timestamps kept. *)
LimiteHistorico == 20

----------------------------------------------------------------------------
(* Small helpers *)

RECURSIVE GCD(_, _)
GCD(a, b) == IF b = 0 THEN a ELSE GCD(b, a % b)

Abs(x) == IF x < 0 THEN -x ELSE x

(* float('inf'), and the outcome of dividing by zero. *)
Infinito == <<1, 0>>

(* The rational n/d in lowest terms with a positive denominator, as        *)
(* <<numerator, denominator>>.                                             *)
Frac(n, d) ==
    IF d = 0 THEN Infinito
    ELSE LET g == GCD(Abs(n), Abs(d))
             sinal == IF d < 0 THEN -1 ELSE 1
         IN  <<sinal * (n \div g), sinal * (d \div g)>>

Last(s) == s[Len(s)]

----------------------------------------------------------------------------
(* Clock and timestamp text *)

(* agora.strftime("%Y-%m-%d %H:%M:%S"): the instant cut to whole seconds,  *)
(* written as zero-padded fields <<minute, second>>.                       *)
strftime(agora) ==
    LET seg == agora \div TicksPorSegundo
    IN  <<seg \div 60, seg % 60>>

(* Text order of two timestamps (Python's str "<" on zero-padded fields). *)
TextoMenor(a, b) == a[1] < b[1] \/ (a[1] = b[1] /\ a[2] < b[2])

(* sorted(keys) in descending text order. *)
RECURSIVE sorted_decrescente(_)
sorted_decrescente(S) ==
    IF S = {} THEN <<>>
    ELSE LET m == CHOOSE x \in S : \A y \in S \ {x} : TextoMenor(y, x)
         IN  <<m>> \o sorted_decrescente(S \ {m})

(* sorted(keys): ascending text order. *)
RECURSIVE sorted(_)
sorted(S) ==
    IF S = {} THEN <<>>
    ELSE LET m == CHOOSE x \in S : \A y \in S \ {x} : TextoMenor(x, y)
         IN  <<m>> \o sorted(S \ {m})

----------------------------------------------------------------------------
(* registrar_progresso *)

(* Inserir that keeps a snapshot the depot already has under the          *)
(* timestamp instead of overwriting it.                                    *)
InserirSemSobrescrever(h, timestamp, deposito, dados, agora) ==
    LET h1 == IF timestamp \notin DOMAIN h
              THEN [k \in DOMAIN h \cup {timestamp} |->
                        IF k = timestamp THEN <<>> ELSE h[k]]
              ELSE h
        reg == [total |-> dados.total_linhas,
                finalizadas |-> dados.finalizadas,
                timestamp |-> agora]
    IN  [h1 EXCEPT ![timestamp] =
            [d \in DOMAIN h1[timestamp] \cup {deposito} |->
                IF d \in DOMAIN h1[timestamp] THEN h1[timestamp][d] ELSE reg]]

(* Inserir that stores the instant cut to the whole minute. *)
InserirInstanteTruncado(h, timestamp, deposito, dados, agora) ==
    LET h1 == IF timestamp \notin DOMAIN h
              THEN [k \in DOMAIN h \cup {timestamp} |->
                        IF k = timestamp THEN <<>> ELSE h[k]]
              ELSE h
        reg == [total |-> dados.total_linhas,
                finalizadas |-> dados.finalizadas,
                timestamp |-> (agora \div (60 * TicksPorSegundo)) * 60 * TicksPorSegundo]
    IN  [h1 EXCEPT ![timestamp] =
            [d \in DOMAIN h1[timestamp] \cup {deposito} |->
                IF d = deposito THEN reg ELSE h1[timestamp][d]]]

(* Lines 99-108: create the timestamp's dictionary if needed and store     *)
(* the depot's snapshot under it (overwriting an existing one).            *)
Inserir(h, timestamp, deposito, dados, agora) ==
    LET h1 == IF timestamp \notin DOMAIN h
              THEN [k \in DOMAIN h \cup {timestamp} |->
                        IF k = timestamp THEN <<>> ELSE h[k]]
              ELSE h
        reg == [total |-> dados.total_linhas,
                finalizadas |-> dados.finalizadas,
                timestamp |-> agora]
    IN  [h1 EXCEPT ![timestamp] =
            [d \in DOMAIN h1[timestamp] \cup {deposito} |->
                IF d = deposito THEN reg ELSE h1[timestamp][d]]]

(* Podar with the newest timestamp deleted instead of the oldest. *)
PodarMaisNovo(h) ==
    IF Cardinality(DOMAIN h) > LimiteHistorico
    THEN LET timestamps_ordenados == sorted(DOMAIN h)
             timestamp_novo == timestamps_ordenados[Len(timestamps_ordenados)]
         IN  [k \in DOMAIN h \ {timestamp_novo} |-> h[k]]
    ELSE h

(* Podar with the cap tested one too high. *)
PodarLimiteFrouxo(h) ==
    IF Cardinality(DOMAIN h) > LimiteHistorico + 1
    THEN LET timestamps_ordenados == sorted(DOMAIN h)
             timestamp_antigo == timestamps_ordenados[1]
         IN  [k \in DOMAIN h \ {timestamp_antigo} |-> h[k]]
    ELSE h

(* Lines 110-115: when more than 20 timestamps are held, delete the first  *)
(* of the sorted timestamps with everything stored under it.               *)
Podar(h) ==
    IF Cardinality(DOMAIN h) > LimiteHistorico
    THEN LET timestamps_ordenados == sorted(DOMAIN h)
             timestamp_antigo == timestamps_ordenados[1]
         IN  [k \in DOMAIN h \ {timestamp_antigo} |-> h[k]]
    ELSE h

registrar_progresso(dados, deposito, agora) ==
    LET timestamp == strftime(agora)
    IN  /\ historico_progresso' =
               Podar(Inserir(historico_progresso, timestamp, deposito, dados, agora))
        /\ relogio' = agora
        /\ chamadas' = chamadas + 1
        /\ carimbos' = carimbos \cup {timestamp}
        /\ ultima' = <<[dados |-> dados, deposito |-> deposito,
                        agora |-> agora, timestamp |-> timestamp]>>
        /\ previsao' = <<>>
        /\ UNCHANGED tabVars
        /\ UNCHANGED <<ambVars, procVars>>

----------------------------------------------------------------------------
(* calcular_previsao_conclusao *)

(* Line 135: the sorted timestamps that hold an entry for the depot. *)
timestamps_deposito(h, deposito) ==
    SelectSeq(sorted(DOMAIN h), LAMBDA ts : deposito \in DOMAIN h[ts])

(* Line 137 with the threshold one too high. *)
historico_insuficiente_3(tsd) == Len(tsd) < 3

(* Line 137: fewer than 2 timestamps for the depot. *)
historico_insuficiente(tsd) == Len(tsd) < 2

(* Line 169 with strict comparisons. *)
sem_progresso_estrito(delta_finalizadas, delta_ticks) ==
    delta_finalizadas < 0 \/ delta_ticks < 0

(* Line 169: no items finalized, or no time elapsed, between the two. *)
sem_progresso(delta_finalizadas, delta_ticks) ==
    delta_finalizadas <= 0 \/ delta_ticks <= 0

(* Line 166: (ultimo_time - penultimo_time).total_seconds() / 60. *)
delta_tempo(delta_ticks) == Frac(delta_ticks, 60 * TicksPorSegundo)

(* Line 177 with the elapsed time left in seconds. *)
taxa_progresso_por_segundo(delta_finalizadas, delta_tempo_min) ==
    Frac(delta_finalizadas * delta_tempo_min[2], delta_tempo_min[1] * 60)

(* Line 177: delta_finalizadas / delta_tempo, items per minute. *)
taxa_progresso(delta_finalizadas, delta_tempo_min) ==
    Frac(delta_finalizadas * delta_tempo_min[2], delta_tempo_min[1])

(* Lines 183-186: itens_restantes / taxa_progresso, or infinity. *)
tempo_restante_min(itens_restantes, taxa) ==
    IF taxa[1] > 0 /\ taxa[2] > 0
    THEN Frac(itens_restantes * taxa[2], taxa[1])
    ELSE Infinito

(* Line 189 with the remaining time subtracted. *)
horario_conclusao_para_tras(ultimo_time, tempo) ==
    IF tempo[2] = 0 THEN Infinito
    ELSE Frac(ultimo_time * tempo[2] - tempo[1] * 60 * TicksPorSegundo, tempo[2])

(* Line 189: ultimo_time + timedelta(minutes=tempo_restante_min), in ticks. *)
horario_conclusao(ultimo_time, tempo) ==
    IF tempo[2] = 0 THEN Infinito
    ELSE Frac(ultimo_time * tempo[2] + tempo[1] * 60 * TicksPorSegundo, tempo[2])

(* Lines 131-202.  None is <<>>, a snapshot is <<snapshot>>.  Instants are *)
(* in ticks; rates and durations are exact fractions.                      *)
calcular_previsao_conclusao(h, deposito) ==
    LET tsd == timestamps_deposito(h, deposito)
    IN  IF historico_insuficiente(tsd)
        THEN [status |-> "insuficiente",
              ultimo_progresso |-> IF tsd # <<>> THEN <<h[Last(tsd)][deposito]>> ELSE <<>>]
        ELSE
          LET ultimo_ts == tsd[Len(tsd)]
              penultimo_ts == tsd[Len(tsd) - 1]
              ultimo == h[ultimo_ts][deposito]
              penultimo == h[penultimo_ts][deposito]
              delta_finalizadas == ultimo.finalizadas - penultimo.finalizadas
              ultimo_time == ultimo.timestamp
              penultimo_time == penultimo.timestamp
              delta_ticks == ultimo_time - penultimo_time
          IN  IF sem_progresso(delta_finalizadas, delta_ticks)
              THEN [status |-> "sem_progresso", ultimo_progresso |-> <<ultimo>>]
              ELSE
                LET taxa == taxa_progresso(delta_finalizadas, delta_tempo(delta_ticks))
                    itens_restantes == ultimo.total - ultimo.finalizadas
                    tempo == tempo_restante_min(itens_restantes, taxa)
                IN  [status |-> "ok",
                     delta_finalizadas |-> delta_finalizadas,
                     delta_tempo_min |-> delta_tempo(delta_ticks),
                     taxa_progresso |-> taxa,
                     itens_restantes |-> itens_restantes,
                     tempo_restante_min |-> tempo,
                     horario_conclusao |-> horario_conclusao(ultimo_time, tempo),
                     ultimo_progresso |-> <<ultimo>>]

Prever(deposito) ==
    /\ previsao' = <<[deposito |-> deposito,
                      resultado |-> calcular_previsao_conclusao(historico_progresso, deposito)]>>
    /\ UNCHANGED <<historico_progresso, relogio, chamadas, carimbos, ultima>>
    /\ UNCHANGED tabVars
    /\ UNCHANGED <<ambVars, procVars>>

----------------------------------------------------------------------------
(* Specifications of the progress history *)

Depositos == {"ambos", "DP01"}

Dados == {[total_linhas |-> 100, finalizadas |-> 40],
          [total_linhas |-> 100, finalizadas |-> 50],
          [total_linhas |-> 50, finalizadas |-> 50]}

(* Clock readings of the short runs: two instants in the first second,     *)
(* then one second, one minute and ten minutes later.                      *)
Instantes == {0, 1, TicksPorSegundo, 60 * TicksPorSegundo, 600 * TicksPorSegundo}

InitHist ==
    /\ historico_progresso = <<>>
    /\ relogio = 0
    /\ chamadas = 0
    /\ carimbos = {}
    /\ ultima = <<>>
    /\ previsao = <<>>

InitTabVazia ==
    /\ df = <<>>
    /\ colunas = {}
    /\ classificacao = <<>>
    /\ ranking = <<>>

(* A day and a flag value, and no result yet of the table pipeline. *)
DataInicial == [ano |-> 2025, mes |-> 3, dia |-> 1]

InitAmbiente ==
    /\ hoje = DataInicial
    /\ USAR_NOVA_LOGICA_DATAS = TRUE

InitProcVazio ==
    /\ filtrado = <<>>
    /\ dados_processados = <<>>
    /\ dados_cortes = <<>>

Init == InitHist /\ InitTabVazia /\ InitAmbiente /\ InitProcVazio

Registrar ==
    /\ chamadas < MaxChamadas
    /\ \E dados \in Dados, deposito \in Depositos, agora \in Instantes :
           registrar_progresso(dados, deposito, agora)

PreverAlgum == \E deposito \in Depositos : Prever(deposito)

Next == Registrar \/ PreverAlgum

Spec == Init /\ [][Next]_vars

(* Long runs, for the pruning: an ordinary call is made one second after   *)
(* the previous clock reading for depot "ambos"; every PeriodoLivre-th     *)
(* call is free: any depot, any data, and a clock reading at any whole     *)
(* second up to one second ahead (the clock may stand still or have been   *)
(* set back).                                                              *)
DadosRegulares == [total_linhas |-> 100, finalizadas |-> 40]

RegistrarRegular ==
    /\ chamadas < MaxChamadasPoda
    /\ chamadas % PeriodoLivre # 0
    /\ registrar_progresso(DadosRegulares, "ambos", relogio + TicksPorSegundo)

RegistrarLivre ==
    /\ chamadas < MaxChamadasPoda
    /\ chamadas % PeriodoLivre = 0
    /\ \E dados \in Dados, deposito \in Depositos,
          seg \in 0 .. ((relogio \div TicksPorSegundo) + 1) :
           registrar_progresso(dados, deposito, seg * TicksPorSegundo)

NextPoda == RegistrarRegular \/ RegistrarLivre

SpecPoda == Init /\ [][NextPoda]_vars

(* Long runs under a clock that never goes back: the depot of a call is   *)
(* "DP01" in every fourth second and "ambos" in the others.  An ordinary   *)
(* call is made one second after the previous one with the same data;      *)
(* every PeriodoLivre-th call has any data and comes at the same instant,  *)
(* one tick or one second after the previous one.  Forecasts are asked in  *)
(* between.                                                                *)
deposito_do_segundo(seg) == IF seg % 4 = 0 THEN "DP01" ELSE "ambos"

deposito_do_instante(agora) == deposito_do_segundo(agora \div TicksPorSegundo)

RegistrarEmOrdem ==
    /\ chamadas < MaxChamadasPoda
    /\ chamadas % PeriodoLivre # 0
    /\ registrar_progresso(DadosRegulares,
                           deposito_do_instante(relogio + TicksPorSegundo),
                           relogio + TicksPorSegundo)

RegistrarEmOrdemLivre ==
    /\ chamadas < MaxChamadasPoda
    /\ chamadas % PeriodoLivre = 0
    /\ \E dados \in Dados, passo \in {0, 1, TicksPorSegundo} :
           registrar_progresso(dados, deposito_do_instante(relogio + passo),
                               relogio + passo)

NextMonotono == RegistrarEmOrdem \/ RegistrarEmOrdemLivre \/ PreverAlgum

SpecMonotono == Init /\ [][NextMonotono]_vars

----------------------------------------------------------------------------
(* Claims about the progress history *)

Timestamps == DOMAIN historico_progresso

MaisAntigo(S) == CHOOSE x \in S : \A y \in S \ {x} : TextoMenor(x, y)

(* C3: starting from the empty history, after 21 calls of                  *)
(* registrar_progresso at 21 distinct timestamps the history holds exactly *)
(* 20 timestamps: all of the 21 except the earliest one, which is gone     *)
(* with every depot entry under it.                                        *)
C3_Poda21 ==
    (chamadas = LimiteHistorico + 1 /\ Cardinality(carimbos) = LimiteHistorico + 1)
        => /\ Cardinality(Timestamps) = LimiteHistorico
           /\ MaisAntigo(carimbos) \notin Timestamps
           /\ Timestamps = carimbos \ {MaisAntigo(carimbos)}

(* 21 calls at 21 distinct timestamps have been made, for both depots. *)
C3_Witness ==
    /\ chamadas = LimiteHistorico + 1
    /\ Cardinality(carimbos) = LimiteHistorico + 1
    /\ \E a, b \in Timestamps :
           "DP01" \in DOMAIN historico_progresso[a]
           /\ "ambos" \in DOMAIN historico_progresso[b]

(* C4: after any sequence of registrar_progresso calls the history never   *)
(* holds more than 20 distinct timestamps.                                 *)
C4_NoMaximo20 == Cardinality(Timestamps) <= LimiteHistorico

(* More than 20 distinct timestamps were registered and 20 are held. *)
C4_Witness ==
    /\ Cardinality(carimbos) > LimiteHistorico
    /\ Cardinality(Timestamps) = LimiteHistorico

(* C5: a registrar_progresso call for a depot that already has a snapshot  *)
(* under the call's timestamp (an earlier call in the same second)         *)
(* replaces that snapshot: the number of timestamps does not grow, the     *)
(* depot's entry holds the new call's total and finalizadas, and the other *)
(* depots' entries under that timestamp are unchanged.                     *)
C5_MesmoSegundo ==
    [][ (/\ chamadas' = chamadas + 1
         /\ ultima'[1].timestamp \in DOMAIN historico_progresso
         /\ ultima'[1].deposito \in DOMAIN historico_progresso[ultima'[1].timestamp])
        => LET ts == ultima'[1].timestamp
               d == ultima'[1].deposito
           IN  /\ Cardinality(DOMAIN historico_progresso')
                      <= Cardinality(DOMAIN historico_progresso)
               /\ ts \in DOMAIN historico_progresso'
               /\ d \in DOMAIN historico_progresso'[ts]
               /\ historico_progresso'[ts][d].total = ultima'[1].dados.total_linhas
               /\ historico_progresso'[ts][d].finalizadas = ultima'[1].dados.finalizadas
               /\ \A o \in DOMAIN historico_progresso[ts] \ {d} :
                      /\ o \in DOMAIN historico_progresso'[ts]
                      /\ historico_progresso'[ts][o] = historico_progresso[ts][o]
      ]_vars

(* Three calls fell in one second and that second holds both depots: a     *)
(* depot was registered twice under a timestamp that also holds the other. *)
C5_Witness ==
    /\ chamadas = 3
    /\ Cardinality(carimbos) = 1
    /\ \A ts \in Timestamps : DOMAIN historico_progresso[ts] = Depositos
    /\ Timestamps # {}

(* The timestamps that hold an entry for depot d, the latest of them and   *)
(* the latest but one.                                                     *)
TimestampsDe(d) == {ts \in Timestamps : d \in DOMAIN historico_progresso[ts]}

MaisRecente(S) == CHOOSE x \in S : \A y \in S \ {x} : TextoMenor(y, x)

UltimoDe(d) == historico_progresso[MaisRecente(TimestampsDe(d))][d]

PenultimoDe(d) ==
    historico_progresso[MaisRecente(TimestampsDe(d) \ {MaisRecente(TimestampsDe(d))})][d]

(* C6: calcular_previsao_conclusao(d) answers 'insuficiente' exactly when  *)
(* fewer than 2 timestamps hold an entry for d; ultimo_progresso is then   *)
(* the single snapshot of d, or None when d has none (also on the empty    *)
(* history, where the call still returns a result).                        *)
C6_Insuficiente ==
    previsao # <<>> =>
        LET d == previsao[1].deposito
            r == previsao[1].resultado
            n == Cardinality(TimestampsDe(d))
        IN  /\ (r.status = "insuficiente") <=> (n < 2)
            /\ n = 1 => r.ultimo_progresso = <<UltimoDe(d)>>
            /\ n = 0 => r.ultimo_progresso = <<>>
            /\ Timestamps = {} => r.status = "insuficiente"

(* A forecast was asked for a depot with one snapshot while the history    *)
(* holds more timestamps.                                                  *)
C6_Witness ==
    /\ previsao # <<>>
    /\ Cardinality(TimestampsDe(previsao[1].deposito)) = 1
    /\ Cardinality(Timestamps) >= 2
    /\ previsao[1].resultado.status = "insuficiente"

(* C7: with at least 2 snapshots of depot d, the forecast is               *)
(* 'sem_progresso' carrying the latest snapshot iff the latest snapshot's  *)
(* finalizadas minus the previous one's is <= 0 or the time elapsed        *)
(* between them is <= 0; in every other case it is 'ok'.                   *)
C7_SemProgresso ==
    (previsao # <<>> /\ Cardinality(TimestampsDe(previsao[1].deposito)) >= 2) =>
        LET d == previsao[1].deposito
            r == previsao[1].resultado
            u == UltimoDe(d)
            p == PenultimoDe(d)
            parado == u.finalizadas - p.finalizadas <= 0 \/ u.timestamp - p.timestamp <= 0
        IN  /\ (r.status = "sem_progresso") <=> parado
            /\ parado => r.ultimo_progresso = <<u>>
            /\ ~parado => r.status = "ok"

(* A forecast found the same finalizadas in the two latest snapshots. *)
C7_Witness ==
    /\ previsao # <<>>
    /\ Cardinality(TimestampsDe(previsao[1].deposito)) >= 2
    /\ UltimoDe(previsao[1].deposito).finalizadas
           = PenultimoDe(previsao[1].deposito).finalizadas
    /\ previsao[1].resultado.status = "sem_progresso"

(* C8: an 'ok' forecast is the two-point extrapolation over the two most   *)
(* recent snapshots of the depot (timestamps of other depots ignored):     *)
(* rate * delta_minutes = delta_finalizadas, remaining = total -           *)
(* finalizadas of the latest, eta * rate = remaining, completion = latest  *)
(* instant + eta; and {100,40} at T, {100,50} at T+10min give rate 1,      *)
(* remaining 50, eta 50 min, completion T+60min.                           *)
C8_Extrapolacao ==
    previsao # <<>> =>
        LET d == previsao[1].deposito
            r == previsao[1].resultado
        IN  /\ r.status = "ok" =>
                LET u == UltimoDe(d)
                    p == PenultimoDe(d)
                    dfin == u.finalizadas - p.finalizadas
                    dticks == u.timestamp - p.timestamp
                    taxa == r.taxa_progresso
                    eta == r.tempo_restante_min
                    fim == r.horario_conclusao
                IN  /\ taxa[2] > 0 /\ eta[2] > 0 /\ fim[2] > 0
                    /\ taxa[1] * dticks = dfin * 60 * TicksPorSegundo * taxa[2]
                    /\ r.itens_restantes = u.total - u.finalizadas
                    /\ eta[1] * taxa[1] = r.itens_restantes * eta[2] * taxa[2]
                    /\ fim[1] * eta[2]
                           = fim[2] * (u.timestamp * eta[2] + eta[1] * 60 * TicksPorSegundo)
            /\ (/\ Cardinality(TimestampsDe(d)) >= 2
                /\ PenultimoDe(d).total = 100 /\ PenultimoDe(d).finalizadas = 40
                /\ UltimoDe(d).total = 100 /\ UltimoDe(d).finalizadas = 50
                /\ UltimoDe(d).timestamp - PenultimoDe(d).timestamp
                       = 10 * 60 * TicksPorSegundo)
               => /\ r.status = "ok"
                  /\ r.taxa_progresso = <<1, 1>>
                  /\ r.itens_restantes = 50
                  /\ r.tempo_restante_min = <<50, 1>>
                  /\ r.horario_conclusao
                         = <<PenultimoDe(d).timestamp + 60 * 60 * TicksPorSegundo, 1>>

(* The example, with a timestamp of the other depot alone between the two  *)
(* snapshots.                                                              *)
C8_Witness ==
    /\ previsao # <<>>
    /\ previsao[1].resultado.status = "ok"
    /\ Cardinality(TimestampsDe(previsao[1].deposito)) = 2
    /\ Cardinality(Timestamps) = 3
    /\ PenultimoDe(previsao[1].deposito).finalizadas = 40
    /\ UltimoDe(previsao[1].deposito).finalizadas = 50
    /\ UltimoDe(previsao[1].deposito).timestamp
           - PenultimoDe(previsao[1].deposito).timestamp = 10 * 60 * TicksPorSegundo
    /\ \E ts \in Timestamps \ TimestampsDe(previsao[1].deposito) :
           /\ TextoMenor(ts, MaisRecente(Timestamps))
           /\ TextoMenor(MaisAntigo(Timestamps), ts)

----------------------------------------------------------------------------
(* Tables: a row is a record of the columns' texts; a table is a sequence  *)
(* of rows together with the set of its column names.                      *)

Linha(nt, item, nome, dep) ==
    [NUMERO_NT |-> nt, ITEM_FINALIZADO |-> item, NOME_USUARIO |-> nome, DEPOSITO |-> dep]

TodasColunas == {"NUMERO_NT", "ITEM_FINALIZADO", "NOME_USUARIO", "DEPOSITO"}

Indices(s) == 1 .. Len(s)

Imagem(s) == {s[i] : i \in Indices(s)}

(* Tables of at most n rows over a set of rows. *)
TabelasAte(linhas, n) == UNION {[1 .. k -> linhas] : k \in 0 .. n}

----------------------------------------------------------------------------
(* classificar_status *)

(* Line 289 without its first conjunct. *)
regra_pendentes_sem_any(grupo) ==
    \A i \in Indices(grupo) : grupo[i].NOME_USUARIO = ""

(* Line 287: all(grupo["ITEM_FINALIZADO"] == "X"). *)
regra_finalizadas(grupo) ==
    \A i \in Indices(grupo) : grupo[i].ITEM_FINALIZADO = "X"

(* Line 289: any(ITEM_FINALIZADO != "X") and all(NOME_USUARIO == ""). *)
regra_pendentes(grupo) ==
    /\ \E i \in Indices(grupo) : grupo[i].ITEM_FINALIZADO # "X"
    /\ \A i \in Indices(grupo) : grupo[i].NOME_USUARIO = ""

(* classificar_status with the two tests in the other order. *)
classificar_status_invertido(grupo) ==
    IF regra_pendentes_sem_any(grupo) THEN "Pendentes"
    ELSE IF regra_finalizadas(grupo) THEN "Finalizadas"
    ELSE "Em Separação"

(* Lines 287-292. *)
classificar_status(grupo) ==
    IF regra_finalizadas(grupo) THEN "Finalizadas"
    ELSE IF regra_pendentes(grupo) THEN "Pendentes"
    ELSE "Em Separação"

(* One round of the loop of processar_dados (lines 406-413): the rows of   *)
(* one NUMERO_NT, in table order, are classified.                          *)
Classificar(numero_nt) ==
    /\ "NUMERO_NT" \in colunas
    /\ \E i \in Indices(df) : df[i].NUMERO_NT = numero_nt
    /\ LET grupo == SelectSeq(df, LAMBDA l : l.NUMERO_NT = numero_nt)
       IN  classificacao' = <<[NUMERO_NT |-> numero_nt, grupo |-> grupo,
                               Status |-> classificar_status(grupo)]>>
    /\ UNCHANGED <<df, colunas, ranking>>
    /\ UNCHANGED histVars
    /\ UNCHANGED <<ambVars, procVars>>

NTs == {"NT1", "NT2"}

LinhasStatus ==
    {Linha(nt, item, nome, "DP01") : nt \in NTs, item \in {"X", "x", ""}, nome \in {"", "A"}}

InitStatus ==
    /\ InitHist
    /\ InitAmbiente
    /\ InitProcVazio
    /\ df \in TabelasAte(LinhasStatus, MaxLinhas)
    /\ colunas = TodasColunas
    /\ classificacao = <<>>
    /\ ranking = <<>>

NextStatus == \E numero_nt \in NTs : Classificar(numero_nt)

SpecStatus == InitStatus /\ [][NextStatus]_vars

(* C1: classificar_status gives every non-empty group of rows of one       *)
(* NUMERO_NT exactly one of the three statuses, and of the three rule      *)
(* predicates (all rows finalized; some row not finalized and no row has   *)
(* an operator; some row not finalized and some row has an operator)       *)
(* exactly one holds for the group.                                        *)
C1_Total ==
    classificacao # <<>> =>
        LET g == classificacao[1].grupo
            f == regra_finalizadas(g)
            p == regra_pendentes(g)
            e == /\ \E i \in Indices(g) : g[i].ITEM_FINALIZADO # "X"
                 /\ \E i \in Indices(g) : g[i].NOME_USUARIO # ""
        IN  /\ g # <<>>
            /\ classificacao[1].Status \in {"Finalizadas", "Pendentes", "Em Separação"}
            /\ f \/ p \/ e
            /\ ~(f /\ p) /\ ~(f /\ e) /\ ~(p /\ e)

(* A group of two or more finalized rows none of which names an operator. *)
C1_Witness ==
    /\ classificacao # <<>>
    /\ Len(classificacao[1].grupo) >= 2
    /\ \A i \in Indices(classificacao[1].grupo) :
           /\ classificacao[1].grupo[i].ITEM_FINALIZADO = "X"
           /\ classificacao[1].grupo[i].NOME_USUARIO = ""

(* C2: the status is 'Finalizadas' iff every row has ITEM_FINALIZADO "X";  *)
(* otherwise 'Pendentes' iff every row has an empty NOME_USUARIO;          *)
(* otherwise 'Em Separação' (so a group with finalized rows and            *)
(* non-finalized rows that carry an operator is 'Em Separação').           *)
C2_Regra ==
    classificacao # <<>> =>
        LET g == classificacao[1].grupo
            st == classificacao[1].Status
            todasX == \A i \in Indices(g) : g[i].ITEM_FINALIZADO = "X"
            semOperador == \A i \in Indices(g) : g[i].NOME_USUARIO = ""
        IN  /\ (st = "Finalizadas") <=> todasX
            /\ ~todasX => ((st = "Pendentes") <=> semOperador)
            /\ (~todasX /\ ~semOperador) => st = "Em Separação"
            /\ (/\ \E i \in Indices(g) : g[i].ITEM_FINALIZADO = "X"
                /\ \E i \in Indices(g) :
                       g[i].ITEM_FINALIZADO # "X" /\ g[i].NOME_USUARIO # "")
               => st = "Em Separação"

(* A group with a finalized row and a non-finalized row that has an        *)
(* operator was classified.                                                *)
C2_Witness ==
    /\ classificacao # <<>>
    /\ \E i \in Indices(classificacao[1].grupo) :
           classificacao[1].grupo[i].ITEM_FINALIZADO = "X"
    /\ \E i \in Indices(classificacao[1].grupo) :
           /\ classificacao[1].grupo[i].ITEM_FINALIZADO # "X"
           /\ classificacao[1].grupo[i].NOME_USUARIO # ""
    /\ classificacao[1].Status = "Em Separação"

----------------------------------------------------------------------------
(* calcular_ranking_usuarios *)

(* The operator names, in text order. *)
Operadores == <<"A", "B", "C">>

(* deposito=None (or any falsy value). *)
SemDeposito == ""

ColunasRanking == {"NOME_USUARIO", "ITEM_FINALIZADO", "DEPOSITO"}

(* Lines 43-47 with the depot test dropped. *)
filtrar_deposito_todos(tabela, deposito) == tabela

(* Lines 43-47: the rows of the depot, or all rows when none is asked. *)
filtrar_deposito(tabela, deposito) ==
    IF deposito # SemDeposito
    THEN SelectSeq(tabela, LAMBDA l : l.DEPOSITO = deposito)
    ELSE tabela

(* Lines 50-54: rows with ITEM_FINALIZADO == "X", then with an operator. *)
finalizados_com_usuario(tabela) ==
    SelectSeq(SelectSeq(tabela, LAMBDA l : l.ITEM_FINALIZADO = "X"),
              LAMBDA l : l.NOME_USUARIO # "")

(* Lines 61-62: groupby("NOME_USUARIO").size().reset_index(): one row per  *)
(* operator present, in the text order of the names, with its row count.   *)
groupby_size(tabela) ==
    LET conta(u) == Cardinality({i \in Indices(tabela) : tabela[i].NOME_USUARIO = u})
        presentes == SelectSeq(Operadores, LAMBDA u : conta(u) > 0)
    IN  [i \in Indices(presentes) |->
            [NOME_USUARIO |-> presentes[i], TOTAL_FINALIZADAS |-> conta(presentes[i])]]

(* Line 65 sorting upwards. *)
sort_values_ascendente(contagem) ==
    {t \in [Indices(contagem) -> Imagem(contagem)] :
        /\ Imagem(t) = Imagem(contagem)
        /\ \A i, j \in Indices(t) :
               i < j => t[i].TOTAL_FINALIZADAS <= t[j].TOTAL_FINALIZADAS}

(* Line 65: sort_values("TOTAL_FINALIZADAS", ascending=False) with the     *)
(* default kind="quicksort", which is not stable: every arrangement of the *)
(* rows with non-increasing counts is a possible outcome.                  *)
sort_values(contagem) ==
    {t \in [Indices(contagem) -> Imagem(contagem)] :
        /\ Imagem(t) = Imagem(contagem)
        /\ \A i, j \in Indices(t) :
               i < j => t[i].TOTAL_FINALIZADAS >= t[j].TOTAL_FINALIZADAS}

(* Lines 76-86: the position followed by the ordinal sign. *)
formatar_posicao(posicao) == <<posicao, "º">>

(* Lines 68-71: POSICAO = index + 1 and its ordinal text. *)
com_posicao(t) ==
    [i \in Indices(t) |->
        [NOME_USUARIO |-> t[i].NOME_USUARIO,
         TOTAL_FINALIZADAS |-> t[i].TOTAL_FINALIZADAS,
         POSICAO |-> i,
         POSICAO_TEXTO |-> formatar_posicao(i)]]

(* Lines 17-74: the set of tables the call can return. *)
calcular_ranking_usuarios(tabela, cols, deposito) ==
    IF tabela = <<>> THEN {<<>>}
    ELSE IF ~(ColunasRanking \subseteq cols) THEN {<<>>}
    ELSE LET df_finalizados == finalizados_com_usuario(filtrar_deposito(tabela, deposito))
         IN  IF df_finalizados = <<>> THEN {<<>>}
             ELSE {com_posicao(t) : t \in sort_values(groupby_size(df_finalizados))}

Ranquear(deposito) ==
    /\ \E r \in calcular_ranking_usuarios(df, colunas, deposito) :
           ranking' = <<[deposito |-> deposito, tabela |-> r]>>
    /\ UNCHANGED <<df, colunas, classificacao>>
    /\ UNCHANGED histVars
    /\ UNCHANGED <<ambVars, procVars>>

LinhasRanking ==
    {Linha("NT1", item, nome, dep) :
        item \in {"X", "x"}, nome \in {"", "A", "B"}, dep \in {"DP01", "DP40"}}

Repetir(l, n) == [i \in 1 .. n |-> l]

(* Operators first met in the order B, A, C with 5, 5 and 3 finalized rows. *)
TabelaExemplo ==
    Repetir(Linha("NT1", "X", "B", "DP01"), 5)
        \o Repetir(Linha("NT1", "X", "A", "DP01"), 5)
        \o Repetir(Linha("NT1", "X", "C", "DP01"), 3)

InitRanking ==
    /\ InitHist
    /\ InitAmbiente
    /\ InitProcVazio
    /\ df \in TabelasAte(LinhasRanking, MaxLinhas) \cup {TabelaExemplo}
    /\ colunas \in {TodasColunas, TodasColunas \ {"DEPOSITO"}}
    /\ classificacao = <<>>
    /\ ranking = <<>>

NextRanking == \E deposito \in {SemDeposito, "DP01", "DP40"} : Ranquear(deposito)

SpecRanking == InitRanking /\ [][NextRanking]_vars

(* The rows of df that count for the ranking of depot d, per operator. *)
Contadas(u, d) ==
    {i \in Indices(df) :
        /\ df[i].ITEM_FINALIZADO = "X"
        /\ df[i].NOME_USUARIO = u
        /\ d = SemDeposito \/ df[i].DEPOSITO = d}

PrimeiroEncontro(u, d) ==
    CHOOSE i \in Contadas(u, d) : \A j \in Contadas(u, d) : i <= j

EhExemplo(d) ==
    /\ Cardinality(Contadas("B", d)) = 5
    /\ Cardinality(Contadas("A", d)) = 5
    /\ Cardinality(Contadas("C", d)) = 3
    /\ PrimeiroEncontro("B", d) < PrimeiroEncontro("A", d)
    /\ PrimeiroEncontro("A", d) < PrimeiroEncontro("C", d)

----------------------------------------------------------------------------
(* Cell texts.  A text cell is a sequence of one-character strings; a      *)
(* missing cell (pandas NaN) is the value NaN.                             *)

NaN == <<"NaN">>

Vazio == <<>>

Digitos == <<"0", "1", "2", "3", "4", "5", "6", "7", "8", "9">>

Digito(n) == Digitos[n + 1]

EhEspaco(c) == c \in {" ", "\t"}

(* Series.astype(str): a missing cell becomes the text "nan". *)
astype_str(c) == IF c = NaN THEN <<"n", "a", "n">> ELSE c

(* str.strip(): leading and trailing whitespace removed. *)
RECURSIVE lstrip(_)
lstrip(t) == IF t # <<>> /\ EhEspaco(Head(t)) THEN lstrip(Tail(t)) ELSE t

RECURSIVE rstrip(_)
rstrip(t) ==
    IF t # <<>> /\ EhEspaco(t[Len(t)]) THEN rstrip(SubSeq(t, 1, Len(t) - 1)) ELSE t

strip(t) == rstrip(lstrip(t))

(* The full row of the export. *)
LinhaCompleta(nt, item, nome, dep, usuario, quant, planejada, producao, material) ==
    [NUMERO_NT |-> nt, ITEM_FINALIZADO |-> item, NOME_USUARIO |-> nome,
     DEPOSITO |-> dep, USUARIO |-> usuario, QUANT_NT |-> quant,
     DT_PLANEJADA |-> planejada, DT_PRODUCAO |-> producao,
     MATERIAL |-> material, DESC_MATERIAL |-> material]

ColunasCompletas ==
    {"NUMERO_NT", "ITEM_FINALIZADO", "NOME_USUARIO", "DEPOSITO", "USUARIO",
     "QUANT_NT", "DT_PLANEJADA", "DT_PRODUCAO", "MATERIAL", "DESC_MATERIAL"}

----------------------------------------------------------------------------
(* Dates and their texts *)

Bissexto(ano) == (ano % 4 = 0 /\ ano % 100 # 0) \/ ano % 400 = 0

DiasNoMes(ano, mes) ==
    IF mes = 2 THEN (IF Bissexto(ano) THEN 29 ELSE 28)
    ELSE IF mes \in {4, 6, 9, 11} THEN 30 ELSE 31

(* hoje - datetime.timedelta(days=1). *)
dia_anterior(d) ==
    IF d.dia > 1 THEN [d EXCEPT !.dia = d.dia - 1]
    ELSE IF d.mes > 1
         THEN [ano |-> d.ano, mes |-> d.mes - 1, dia |-> DiasNoMes(d.ano, d.mes - 1)]
         ELSE [ano |-> d.ano - 1, mes |-> 12, dia |-> 31]

Pad2(n) == <<Digito(n \div 10), Digito(n % 10)>>

Pad4(n) ==
    <<Digito(n \div 1000), Digito((n \div 100) % 10), Digito((n \div 10) % 10), Digito(n % 10)>>

(* strftime("%d.%m.%Y"), strftime("%d/%m/%Y"), strftime("%Y-%m-%d"). *)
strftime_ponto(d) == Pad2(d.dia) \o <<".">> \o Pad2(d.mes) \o <<".">> \o Pad4(d.ano)

strftime_barra(d) == Pad2(d.dia) \o <<"/">> \o Pad2(d.mes) \o <<"/">> \o Pad4(d.ano)

strftime_iso(d) == Pad4(d.ano) \o <<"-">> \o Pad2(d.mes) \o <<"-">> \o Pad2(d.dia)

----------------------------------------------------------------------------
(* Date-window filters *)

(* Lines 197 and 253: DT_PLANEJADA as text, stripped. *)
planejada_limpa(tabela) ==
    [i \in 1 .. Len(tabela) |->
        [tabela[i] EXCEPT !.DT_PLANEJADA = strip(astype_str(tabela[i].DT_PLANEJADA))]]

(* Lines 200-203 with the production date also required to be today. *)
condicao_planejada_dashboard_producao(l, hj) ==
    /\ l.DT_PLANEJADA \in
           {strftime_ponto(dia_anterior(hj)), strftime_barra(dia_anterior(hj)),
            strftime_iso(dia_anterior(hj)),
            strftime_ponto(hj), strftime_barra(hj), strftime_iso(hj)}
    /\ l.DT_PRODUCAO \in {strftime_ponto(hj), strftime_barra(hj), strftime_iso(hj)}

(* Lines 200-203: DT_PLANEJADA is yesterday or today in one of the formats. *)
condicao_planejada_dashboard(l, hj) ==
    \/ l.DT_PLANEJADA \in
           {strftime_ponto(dia_anterior(hj)), strftime_barra(dia_anterior(hj)),
            strftime_iso(dia_anterior(hj))}
    \/ l.DT_PLANEJADA \in {strftime_ponto(hj), strftime_barra(hj), strftime_iso(hj)}

(* Line 256 with yesterday's texts accepted as well. *)
condicao_planejada_outras_com_ontem(l, hj) ==
    l.DT_PLANEJADA \in
        {strftime_ponto(dia_anterior(hj)), strftime_barra(dia_anterior(hj)),
         strftime_iso(dia_anterior(hj)),
         strftime_ponto(hj), strftime_barra(hj), strftime_iso(hj)}

(* Line 256: DT_PLANEJADA is today in one of the formats. *)
condicao_planejada_outras(l, hj) ==
    l.DT_PLANEJADA \in {strftime_ponto(hj), strftime_barra(hj), strftime_iso(hj)}

(* df.copy() that hands back the frame it was called on. *)
df_copy_mesmo_objeto(objeto) == objeto

(* df.copy() (lines 194, 250): a new frame, distinct from the one copied.  *)
df_copy(objeto) == "copia"

(* The table behind the caller's frame when a filter returns: line 197 (or *)
(* 253) writes the stripped column into the frame df_filtrado names, which *)
(* is the caller's frame only if the copy is that same frame; on the       *)
(* pass-through paths nothing is written.                                  *)
entrada_apos_filtro(tabela, cols, passa_direto) ==
    IF passa_direto \/ "DT_PLANEJADA" \notin cols THEN tabela
    ELSE IF df_copy("entrada") = "entrada" THEN planejada_limpa(tabela)
    ELSE tabela

(* Lines 153-217. *)
aplicar_filtro_datas_dashboard(tabela, cols, flag, hj) ==
    IF ~flag THEN tabela
    ELSE IF "DT_PLANEJADA" \notin cols THEN tabela
    ELSE SelectSeq(planejada_limpa(tabela),
                   LAMBDA l : condicao_planejada_dashboard(l, hj))

(* Lines 219-268: the feature flag is not read here. *)
aplicar_filtro_datas_outras_telas(tabela, cols, flag, hj) ==
    IF "DT_PLANEJADA" \notin cols THEN tabela
    ELSE SelectSeq(planejada_limpa(tabela),
                   LAMBDA l : condicao_planejada_outras(l, hj))

FiltrarDashboard ==
    /\ filtrado' = <<[janela |-> "dashboard",
                      resultado |-> aplicar_filtro_datas_dashboard(
                                        df, colunas, USAR_NOVA_LOGICA_DATAS, hoje)]>>
    /\ df' = entrada_apos_filtro(df, colunas, ~USAR_NOVA_LOGICA_DATAS)
    /\ UNCHANGED <<dados_processados, dados_cortes>>
    /\ UNCHANGED <<histVars, colunas, classificacao, ranking, ambVars>>

FiltrarOutrasTelas ==
    /\ filtrado' = <<[janela |-> "outras",
                      resultado |-> aplicar_filtro_datas_outras_telas(
                                        df, colunas, USAR_NOVA_LOGICA_DATAS, hoje)]>>
    /\ df' = entrada_apos_filtro(df, colunas, FALSE)
    /\ UNCHANGED <<dados_processados, dados_cortes>>
    /\ UNCHANGED <<histVars, colunas, classificacao, ranking, ambVars>>

(* The texts of three consecutive days, letter by letter. *)
Txt2802Ponto == <<"2", "8", ".", "0", "2", ".", "2", "0", "2", "5">>
Txt2802Barra == <<"2", "8", "/", "0", "2", "/", "2", "0", "2", "5">>
Txt2802Iso == <<"2", "0", "2", "5", "-", "0", "2", "-", "2", "8">>
Txt0103Ponto == <<"0", "1", ".", "0", "3", ".", "2", "0", "2", "5">>
Txt0103Barra == <<"0", "1", "/", "0", "3", "/", "2", "0", "2", "5">>
Txt0103BarraEspacos == <<" ", "0", "1", "/", "0", "3", "/", "2", "0", "2", "5", " ">>
Txt0103Iso == <<"2", "0", "2", "5", "-", "0", "3", "-", "0", "1">>
Txt0103SemZeros == <<"1", ".", "3", ".", "2", "0", "2", "5">>
Txt0203Ponto == <<"0", "2", ".", "0", "3", ".", "2", "0", "2", "5">>
Txt0203Barra == <<"0", "2", "/", "0", "3", "/", "2", "0", "2", "5">>
Txt0203Iso == <<"2", "0", "2", "5", "-", "0", "3", "-", "0", "2">>

Dia0103 == [ano |-> 2025, mes |-> 3, dia |-> 1]
Dia0203 == [ano |-> 2025, mes |-> 3, dia |-> 2]

TextosPlanejada ==
    {Txt2802Ponto, Txt2802Iso, Txt0103Ponto, Txt0103BarraEspacos, Txt0103Iso,
     Txt0103SemZeros, Txt0203Barra, NaN}

LinhasFiltro ==
    {LinhaCompleta("NT1", "", "", "DP01", "OUTRO", <<"1">>, planejada, producao, "M1") :
        planejada \in TextosPlanejada, producao \in {Txt0103Ponto, NaN}}

InitFiltro ==
    /\ InitHist
    /\ InitProcVazio
    /\ hoje \in {Dia0103, Dia0203}
    /\ USAR_NOVA_LOGICA_DATAS \in BOOLEAN
    /\ df \in TabelasAte(LinhasFiltro, MaxLinhasFiltro)
    /\ colunas \in {ColunasCompletas, ColunasCompletas \ {"DT_PLANEJADA"}}
    /\ classificacao = <<>>
    /\ ranking = <<>>

NextFiltro == FiltrarDashboard \/ FiltrarOutrasTelas

SpecFiltro == InitFiltro /\ [][NextFiltro]_vars

(* The text between the first and the last character that is not a space. *)
Aparar(t) ==
    LET cheios == {i \in 1 .. Len(t) : t[i] # " "}
    IN  IF cheios = {} THEN <<>>
        ELSE SubSeq(t, CHOOSE i \in cheios : \A j \in cheios : i <= j,
                       CHOOSE i \in cheios : \A j \in cheios : j <= i)

(* The three texts of a day. *)
TextosDoDia(d) ==
    IF d = Dia0103 THEN {Txt0103Ponto, Txt0103Barra, Txt0103Iso}
    ELSE IF d = Dia0203 THEN {Txt0203Ponto, Txt0203Barra, Txt0203Iso}
    ELSE {}

TextosDaVespera(d) ==
    IF d = Dia0103 THEN {Txt2802Ponto, Txt2802Barra, Txt2802Iso}
    ELSE IF d = Dia0203 THEN {Txt0103Ponto, Txt0103Barra, Txt0103Iso}
    ELSE {}

(* The rows of df whose trimmed DT_PLANEJADA is one of the texts, in table *)
(* order, as the filters return them (with the trimmed text).              *)
LinhasCom(textos) ==
    LET mantidas == SelectSeq(df, LAMBDA l :
                        l.DT_PLANEJADA # NaN /\ Aparar(l.DT_PLANEJADA) \in textos)
    IN  [i \in 1 .. Len(mantidas) |->
            [mantidas[i] EXCEPT !.DT_PLANEJADA = Aparar(mantidas[i].DT_PLANEJADA)]]

(* C11: aplicar_filtro_datas_outras_telas keeps exactly the rows whose     *)
(* trimmed DT_PLANEJADA is today's date written DD.MM.YYYY, DD/MM/YYYY or  *)
(* YYYY-MM-DD; a row dated yesterday is dropped.                           *)
C11_OutrasTelasHoje ==
    (/\ filtrado # <<>>
     /\ filtrado[1].janela = "outras"
     /\ "DT_PLANEJADA" \in colunas)
        => /\ filtrado[1].resultado = LinhasCom(TextosDoDia(hoje))
           /\ \A i \in 1 .. Len(filtrado[1].resultado) :
                  filtrado[1].resultado[i].DT_PLANEJADA \notin TextosDaVespera(hoje)

(* On 01.03.2025 a table with a row dated the day before and a row dated   *)
(* that day, with spaces around the text, was filtered: the second is kept. *)
C11_Witness ==
    /\ filtrado # <<>>
    /\ filtrado[1].janela = "outras"
    /\ "DT_PLANEJADA" \in colunas
    /\ hoje = Dia0103
    /\ Len(df) = 2
    /\ df[1].DT_PLANEJADA = Txt2802Ponto
    /\ df[2].DT_PLANEJADA = Txt0103BarraEspacos
    /\ Len(filtrado[1].resultado) = 1
    /\ filtrado[1].resultado[1].DT_PLANEJADA = Txt0103Barra

C13_FlagDesligada ==
    (filtrado # <<>> /\ ~USAR_NOVA_LOGICA_DATAS) => filtrado[1].resultado = df

----------------------------------------------------------------------------
(* processar_dados *)

(* logistica_config.py, line 9. *)
USUARIOS_NORMAL ==
    {"FERN.PINTO", "ANDR.DACOSTA", "GABY.DACOSTA", "WILL.CARNEIR", "CLAU.OLIVEIR"}

(* str.replace(antigo, novo, regex=False) with one-character texts; novo   *)
(* is a text, possibly empty.  A missing cell stays missing.               *)
RECURSIVE substituir(_, _, _)
substituir(t, antigo, novo) ==
    IF t = <<>> THEN <<>>
    ELSE (IF Head(t) = antigo THEN novo ELSE <<Head(t)>>)
             \o substituir(Tail(t), antigo, novo)

str_replace(c, antigo, novo) == IF c = NaN THEN NaN ELSE substituir(c, antigo, novo)

EhDigito(c) == \E n \in 0 .. 9 : Digitos[n + 1] = c

ValorDigito(c) == CHOOSE n \in 0 .. 9 : Digitos[n + 1] = c

RECURSIVE ValorDigitos(_)
ValorDigitos(t) ==
    IF t = <<>> THEN 0
    ELSE 10 * ValorDigitos(SubSeq(t, 1, Len(t) - 1)) + ValorDigito(t[Len(t)])

(* pd.to_numeric(errors="coerce") on an unsigned decimal text: digits with *)
(* at most one point and at least one digit.  The value is kept in         *)
(* hundredths, <<v>> (the texts of the model have at most two decimals); a *)
(* missing cell or any other text gives the missing number, <<>>.          *)
to_numeric(c) ==
    IF c = NaN THEN <<>>
    ELSE LET pontos == {i \in 1 .. Len(c) : c[i] = "."}
             casas == {i \in 1 .. Len(c) : EhDigito(c[i])}
         IN  IF \/ casas = {}
                \/ Cardinality(pontos) > 1
                \/ \E i \in 1 .. Len(c) : ~EhDigito(c[i]) /\ c[i] # "."
             THEN <<>>
             ELSE IF pontos = {} THEN <<100 * ValorDigitos(c)>>
             ELSE LET p == CHOOSE i \in pontos : TRUE
                      decimais == SubSeq(c, p + 1, Len(c)) \o <<"0", "0">>
                  IN  <<100 * ValorDigitos(SubSeq(c, 1, p - 1))
                            + ValorDigitos(SubSeq(decimais, 1, 2))>>

(* Series.sum(): missing values are skipped. *)
RECURSIVE soma(_)
soma(valores) ==
    IF valores = <<>> THEN 0
    ELSE (IF Head(valores) = <<>> THEN 0 ELSE Head(valores)[1]) + soma(Tail(valores))

(* Lines 342-346, 381-383, 388-390: commas become points, then to_numeric  *)
(* and sum, in hundredths.                                                 *)
soma_quant_nt(tabela) ==
    soma([i \in 1 .. Len(tabela) |->
             to_numeric(str_replace(tabela[i].QUANT_NT, ",", <<".">>))])

(* int(x) of a sum kept in hundredths. *)
int(centesimos) == centesimos \div 100

(* Line 360 with users outside the list left without a type. *)
tipo_usuario_sem_reforco(x) == IF x \in USUARIOS_NORMAL THEN "Normal" ELSE "Indefinido"

(* Line 360. *)
tipo_usuario(x) == IF x \in USUARIOS_NORMAL THEN "Normal" ELSE "Reforço"

ComCampo(l, campo, valor) ==
    [f \in DOMAIN l \cup {campo} |-> IF f = campo THEN valor ELSE l[f]]

(* Lines 358-367: the TIPO column. *)
com_tipo(tabela, cols) ==
    [i \in 1 .. Len(tabela) |->
        ComCampo(tabela[i], "TIPO",
                 IF "USUARIO" \in cols THEN tipo_usuario(tabela[i].USUARIO)
                 ELSE "Indefinido")]

NTsEmOrdem == <<"NT1", "NT2">>

Estados == {"Finalizadas", "Em Separação", "Pendentes"}

(* Line 408 with the type of the last row of the group. *)
tipo_do_grupo_ultima(grupo) == grupo[Len(grupo)].TIPO

(* Line 408: grupo["TIPO"].iloc[0]. *)
tipo_do_grupo(grupo) == grupo[1].TIPO

(* Lines 405-415: one record per NUMERO_NT, in the order of groupby. *)
calcular_status_nts(tabela) ==
    LET presentes == SelectSeq(NTsEmOrdem,
                         LAMBDA nt : \E i \in Indices(tabela) : tabela[i].NUMERO_NT = nt)
    IN  [k \in 1 .. Len(presentes) |->
            LET grupo == SelectSeq(tabela, LAMBDA l : l.NUMERO_NT = presentes[k])
            IN  [NUMERO_NT |-> presentes[k],
                 Status |-> classificar_status(grupo),
                 TIPO |-> tipo_do_grupo(grupo)]]

(* Lines 419-442: NTs counted by type and status, with the rows Normal and *)
(* Reforço and the three status columns always present.                    *)
calcular_status_counts(status_nts) ==
    [t \in {status_nts[k].TIPO : k \in Indices(status_nts)} \cup {"Normal", "Reforço"} |->
        [e \in Estados |->
            Cardinality({k \in Indices(status_nts) :
                            status_nts[k].TIPO = t /\ status_nts[k].Status = e})]]

Nenhum == [tipo |-> "None"]

KeyError == [tipo |-> "KeyError"]

(* Lines 294-459. *)
processar_dados(tabela, cols, deposito, tipo_tela, flag, hj) ==
    IF tabela = <<>> THEN Nenhum
    ELSE LET df_com_filtro_data ==
                 IF tipo_tela = "dashboard"
                 THEN aplicar_filtro_datas_dashboard(tabela, cols, flag, hj)
                 ELSE aplicar_filtro_datas_outras_telas(tabela, cols, flag, hj)
         IN  IF df_com_filtro_data = <<>> THEN Nenhum
             ELSE IF "DEPOSITO" \notin cols THEN Nenhum
             ELSE LET filtro_deposito ==
                          SelectSeq(df_com_filtro_data,
                                    LAMBDA l : l.DEPOSITO \in {"DP01", "DP40"})
                  IN  IF filtro_deposito = <<>> THEN Nenhum
                      ELSE IF "ITEM_FINALIZADO" \notin cols THEN KeyError
                      ELSE LET df_filtrado == com_tipo(filtro_deposito, cols)
                               df_normal == SelectSeq(df_filtrado, LAMBDA l : l.TIPO = "Normal")
                               df_reforco == SelectSeq(df_filtrado, LAMBDA l : l.TIPO = "Reforço")
                               status_nts == IF "NUMERO_NT" \notin cols THEN <<>>
                                             ELSE calcular_status_nts(df_filtrado)
                           IN  [tipo |-> "dict",
                                df |-> df_filtrado,
                                total_linhas |-> Len(df_filtrado),
                                finalizadas |->
                                    Len(SelectSeq(df_filtrado,
                                                  LAMBDA l : l.ITEM_FINALIZADO = "X")),
                                total_um |-> int(soma_quant_nt(df_filtrado)),
                                normal_linhas |-> Len(df_normal),
                                normal_um |-> int(soma_quant_nt(df_normal)),
                                reforco_linhas |-> Len(df_reforco),
                                reforco_um |-> int(soma_quant_nt(df_reforco)),
                                status_counts |-> calcular_status_counts(status_nts),
                                status_nts |-> status_nts]

(* The table behind the caller's frame when processar_dados returns: the  *)
(* date filter is called on it (lines 313-316); the depot filter of line   *)
(* 328 selects rows into a new frame, and TIPO (lines 359-367) is added to *)
(* that one.                                                               *)
entrada_apos_processar(tabela, cols, tipo_tela, flag) ==
    IF tabela = <<>> THEN tabela
    ELSE entrada_apos_filtro(tabela, cols, tipo_tela = "dashboard" /\ ~flag)

TiposTela == {"dashboard", "calculos"}

DepositosPedidos == {"ambos", "DP01", "DP40"}

Processar(deposito, tipo_tela) ==
    /\ dados_processados' =
           <<[deposito |-> deposito, tipo_tela |-> tipo_tela,
              retorno |-> processar_dados(df, colunas, deposito, tipo_tela,
                                          USAR_NOVA_LOGICA_DATAS, hoje)]>>
    /\ df' = entrada_apos_processar(df, colunas, tipo_tela, USAR_NOVA_LOGICA_DATAS)
    /\ UNCHANGED <<filtrado, dados_cortes>>
    /\ UNCHANGED <<histVars, colunas, classificacao, ranking, ambVars>>

QuantMilharVirgula == <<"1", ".", "2", "3", "4", ",", "5", "0">>
QuantVirgula == <<"1", "2", "3", "4", ",", "5">>
QuantPonto == <<"1", "2", "3", "4", ".", "5", "0">>
QuantInteira == <<"1", "0">>
QuantTexto == <<"a", "b", "c">>

(* Rows that differ in depot and planned date. *)
LinhasDeposito ==
    {LinhaCompleta("NT1", "X", "A", dep, "OUTRO", QuantInteira, planejada, NaN, "M1") :
        dep \in {"DP01", "DP40", "DP99"}, planejada \in {Txt0103Ponto, Txt2802Ponto}}

(* Rows that differ in work order, regular or reinforcement user, and      *)
(* progress.                                                               *)
LinhasTipo ==
    {LinhaCompleta(nt, item, "", "DP01", usuario, QuantInteira, Txt0103Ponto, NaN, "M1") :
        nt \in NTs, item \in {"X", ""}, usuario \in {"FERN.PINTO", "OUTRO"}}

(* Rows that differ in the quantity text. *)
LinhasQuantidade ==
    {LinhaCompleta("NT1", "", "A", "DP01", usuario, quant, Txt0103Ponto, NaN, "M1") :
        usuario \in {"FERN.PINTO", "OUTRO"},
        quant \in {QuantMilharVirgula, QuantVirgula, QuantPonto, QuantTexto, NaN}}

ColunasProc ==
    {ColunasCompletas} \cup
    {ColunasCompletas \ {c} : c \in {"DEPOSITO", "USUARIO", "NUMERO_NT", "ITEM_FINALIZADO"}}

InitProc ==
    /\ InitHist
    /\ InitProcVazio
    /\ hoje = Dia0103
    /\ USAR_NOVA_LOGICA_DATAS \in BOOLEAN
    /\ df \in TabelasAte(LinhasDeposito, MaxLinhasProc)
             \cup TabelasAte(LinhasTipo, MaxLinhasProc)
             \cup TabelasAte(LinhasQuantidade, MaxLinhasProc)
    /\ colunas \in ColunasProc
    /\ classificacao = <<>>
    /\ ranking = <<>>

NextProc == \E deposito \in DepositosPedidos, tipo_tela \in TiposTela : Processar(deposito, tipo_tela)

SpecProc == InitProc /\ [][NextProc]_vars

(* The value processar_dados returned, after a call. *)
Retorno == dados_processados[1].retorno

DepositoPedido == dados_processados[1].deposito

(* The table after the date filter of the screen of the call. *)
FiltradoPorData ==
    IF dados_processados[1].tipo_tela = "dashboard"
    THEN aplicar_filtro_datas_dashboard(df, colunas, USAR_NOVA_LOGICA_DATAS, hoje)
    ELSE aplicar_filtro_datas_outras_telas(df, colunas, USAR_NOVA_LOGICA_DATAS, hoje)

(* C14: processar_dados computes the bundle only over the rows whose       *)
(* DEPOSITO equals the requested depot code: no row of another depot is in *)
(* the table behind the bundle, and total_linhas counts the rows of the    *)
(* requested depot.                                                        *)
C14_DepositoPedido ==
    (/\ dados_processados # <<>>
     /\ DepositoPedido \in {"DP01", "DP40"}
     /\ Retorno.tipo = "dict")
        => /\ \A i \in Indices(Retorno.df) : Retorno.df[i].DEPOSITO = DepositoPedido
           /\ Retorno.total_linhas =
                  Len(SelectSeq(FiltradoPorData, LAMBDA l : l.DEPOSITO = DepositoPedido))

(* C15: processar_dados returns None, without raising, when the table is   *)
(* empty, the DEPOSITO column is absent or no row is of the requested      *)
(* depot; in every other case it returns a bundle.                         *)
C15_SemDados ==
    (/\ dados_processados # <<>>
     /\ DepositoPedido \in {"DP01", "DP40"})
        => LET sem_dados ==
                   \/ df = <<>>
                   \/ "DEPOSITO" \notin colunas
                   \/ SelectSeq(FiltradoPorData,
                                LAMBDA l : l.DEPOSITO = DepositoPedido) = <<>>
           IN  IF sem_dados THEN Retorno = Nenhum ELSE Retorno.tipo = "dict"

(* normal_linhas + reforco_linhas == total_linhas in every bundle, with or *)
(* without a USUARIO column.                                               *)
C16_Original ==
    (dados_processados # <<>> /\ Retorno.tipo = "dict")
        => Retorno.normal_linhas + Retorno.reforco_linhas = Retorno.total_linhas

(* C16: in every bundle over a table with a USUARIO column,                *)
(* normal_linhas + reforco_linhas == total_linhas; over a table without    *)
(* that column both counts are 0 while total_linhas is positive.           *)
C16_TiposSomam ==
    (dados_processados # <<>> /\ Retorno.tipo = "dict")
        => IF "USUARIO" \in colunas
           THEN Retorno.normal_linhas + Retorno.reforco_linhas = Retorno.total_linhas
           ELSE /\ Retorno.normal_linhas = 0
                /\ Retorno.reforco_linhas = 0
                /\ Retorno.total_linhas > 0

(* A bundle over a table with a regular and a reinforcement row. *)
C16_Witness ==
    /\ dados_processados # <<>>
    /\ Retorno.tipo = "dict"
    /\ "USUARIO" \in colunas
    /\ Retorno.normal_linhas = 1
    /\ Retorno.reforco_linhas = 1
    /\ Retorno.total_linhas = 2

SomaDaLinha(status_counts, t) ==
    status_counts[t]["Finalizadas"] + status_counts[t]["Em Separação"]
        + status_counts[t]["Pendentes"]

(* The work orders of the table behind the bundle that have a row of type  *)
(* t, and those whose first row is of type t.                              *)
NTsComLinhaDoTipo(t) ==
    IF "NUMERO_NT" \notin colunas THEN {}
    ELSE {Retorno.df[i].NUMERO_NT : i \in {j \in Indices(Retorno.df) : Retorno.df[j].TIPO = t}}

NTsComPrimeiraLinhaDoTipo(t) ==
    IF "NUMERO_NT" \notin colunas THEN {}
    ELSE {Retorno.df[i].NUMERO_NT :
             i \in {j \in Indices(Retorno.df) :
                       /\ Retorno.df[j].TIPO = t
                       /\ \A k \in 1 .. j - 1 :
                              Retorno.df[k].NUMERO_NT # Retorno.df[j].NUMERO_NT}}

(* For Normal and for Reforço, the row of status_counts sums to the number *)
(* of distinct NUMERO_NT that have a row of that type.                     *)
C17_Original ==
    (dados_processados # <<>> /\ Retorno.tipo = "dict")
        => \A t \in {"Normal", "Reforço"} :
               SomaDaLinha(Retorno.status_counts, t) = Cardinality(NTsComLinhaDoTipo(t))

(* C17: in every bundle, for Normal and for Reforço, the row of            *)
(* status_counts sums to the number of distinct NUMERO_NT whose first row, *)
(* in table order, is of that type.                                        *)
C17_PrimeiraLinha ==
    (dados_processados # <<>> /\ Retorno.tipo = "dict")
        => \A t \in {"Normal", "Reforço"} :
               SomaDaLinha(Retorno.status_counts, t)
                   = Cardinality(NTsComPrimeiraLinhaDoTipo(t))

(* A bundle over a work order whose first row is regular and whose second  *)
(* row is reinforcement: it is counted once, under Normal.                 *)
C17_Witness ==
    /\ dados_processados # <<>>
    /\ Retorno.tipo = "dict"
    /\ "NUMERO_NT" \in colunas
    /\ Len(Retorno.df) = 2
    /\ Retorno.df[1].NUMERO_NT = Retorno.df[2].NUMERO_NT
    /\ Retorno.df[1].TIPO = "Normal"
    /\ Retorno.df[2].TIPO = "Reforço"
    /\ SomaDaLinha(Retorno.status_counts, "Normal") = 1
    /\ SomaDaLinha(Retorno.status_counts, "Reforço") = 0

(* C18: where the aggregator sums QUANT_NT, each of the texts "1.234,50",  *)
(* "1234,5" and "1234.50" counts as 1234.5: over rows that hold only these *)
(* texts, each unit sum is int(1234.5 * number of rows).                   *)
C18_RegraUnica ==
    (/\ dados_processados # <<>>
     /\ Retorno.tipo = "dict"
     /\ \A i \in Indices(Retorno.df) :
            Retorno.df[i].QUANT_NT \in {QuantMilharVirgula, QuantVirgula, QuantPonto})
        => /\ Retorno.total_um = (12345 * Retorno.total_linhas) \div 10
           /\ Retorno.normal_um = (12345 * Retorno.normal_linhas) \div 10
           /\ Retorno.reforco_um = (12345 * Retorno.reforco_linhas) \div 10

----------------------------------------------------------------------------
(* Cut detector (logistica_cortes.py) *)

COLUNAS_NECESSARIAS_IDENTIFICAR_CORTES ==
    {"ITEM_FINALIZADO", "DT_PRODUCAO", "NUMERO_NT", "MATERIAL", "DESC_MATERIAL", "QUANT_NT"}

DATA_ZERADA_PATTERNS == {<<"0", "0", "0", "0", "-", "0", "0", "-", "0", "0">>, <<"0", "0", "/", "0", "0", "/", "0", "0", "0", "0">>, <<"0", "0", ".", "0", "0", ".", "0", "0", "0", "0">>, <<>>}

COLUNAS_DF_OPERADOR == {"NUMERO_NT", "NOME_USUARIO"}

NaoIdentificado == "Não identificado"

(* Series.astype(str) on a column with missing cells: the text "nan" where *)
(* the column is an object column, the missing value kept where the        *)
(* installed pandas gives the column its string dtype.                     *)
astype_str_serie(c, preserva_nulos) ==
    IF c = NaN THEN (IF preserva_nulos THEN NaN ELSE <<"n", "a", "n">>) ELSE c

(* Series.fillna(""). *)
fillna_vazio(c) == IF c = NaN THEN <<>> ELSE c

(* Series.str.strip(): a missing cell stays missing. *)
str_strip(c) == IF c = NaN THEN NaN ELSE strip(c)

(* str.upper() on the flag texts of the model: "X", "x" and "". *)
str_upper(s) == IF s = "x" THEN "X" ELSE s

(* str.strip() on the operator names of the model: "", " ", "A", "B". *)
str_strip_nome(s) == IF s = " " THEN "" ELSE s

(* Lines 57-58: the two columns of the condition, normalised. *)
df_analise(tabela, preserva_nulos) ==
    [i \in 1 .. Len(tabela) |->
        [tabela[i] EXCEPT
            !.ITEM_FINALIZADO = str_upper(@),
            !.DT_PRODUCAO = str_strip(fillna_vazio(astype_str_serie(@, preserva_nulos)))]]

(* Lines 60-61: finalized and with a zeroed production date, on the        *)
(* normalised row.                                                         *)
condicao_corte(l) ==
    l.ITEM_FINALIZADO = "X" /\ l.DT_PRODUCAO \in DATA_ZERADA_PATTERNS

(* Lines 31-66 without the test of the required columns. *)
identificar_cortes_sem_verificar(tabela, cols, preserva_nulos) ==
    IF tabela = <<>> THEN <<>>
    ELSE LET analise == df_analise(tabela, preserva_nulos)
             cortados == {i \in Indices(tabela) : condicao_corte(analise[i])}
             posicoes == SelectSeq([i \in Indices(tabela) |-> i], LAMBDA i : i \in cortados)
         IN  [k \in Indices(posicoes) |-> analise[posicoes[k]]]

(* Lines 31-66. *)
identificar_cortes(tabela, cols, preserva_nulos) ==
    IF tabela = <<>> THEN <<>>
    ELSE IF ~(COLUNAS_NECESSARIAS_IDENTIFICAR_CORTES \subseteq cols) THEN <<>>
    ELSE LET analise == df_analise(tabela, preserva_nulos)
             cortados == {i \in Indices(tabela) : condicao_corte(analise[i])}
             posicoes == SelectSeq([i \in Indices(tabela) |-> i], LAMBDA i : i \in cortados)
         IN  [k \in Indices(posicoes) |-> analise[posicoes[k]]]

(* Lines 98-100 keeping the last valid row of each NUMERO_NT. *)
operador_da_nt_ultimo(df_completo, nt) ==
    LET validos == {i \in Indices(df_completo) :
                       /\ df_completo[i].NUMERO_NT = nt
                       /\ str_strip_nome(df_completo[i].NOME_USUARIO) # ""}
    IN  IF validos = {} THEN NaoIdentificado
        ELSE df_completo[CHOOSE i \in validos : \A j \in validos : j <= i].NOME_USUARIO

(* Lines 98-110: the operator mapped to a NUMERO_NT is the NOME_USUARIO of *)
(* the first row of that NT whose name is not blank                        *)
(* (drop_duplicates(keep="first")); an NT without one gets the default.    *)
operador_da_nt(df_completo, nt) ==
    LET validos == {i \in Indices(df_completo) :
                       /\ df_completo[i].NUMERO_NT = nt
                       /\ str_strip_nome(df_completo[i].NOME_USUARIO) # ""}
    IN  IF validos = {} THEN NaoIdentificado
        ELSE df_completo[CHOOSE i \in validos : \A j \in validos : i <= j].NOME_USUARIO

(* Lines 68-115. *)
identificar_operador_corte(df_completo, cols, df_cortados) ==
    IF df_cortados = <<>> THEN <<>>
    ELSE [k \in Indices(df_cortados) |->
             ComCampo(df_cortados[k], "OPERADOR_CORTE",
                 IF ~(COLUNAS_DF_OPERADOR \subseteq cols)
                 THEN "Erro: Colunas ausentes no DF principal"
                 ELSE operador_da_nt(df_completo, df_cortados[k].NUMERO_NT))]

(* Lines 161-168: QUANT_NT as text, stripped, thousands points removed,    *)
(* comma to point, to_numeric and fillna(0); in hundredths.                *)
quant_nt_num(c, preserva_nulos) ==
    LET texto == astype_str_serie(c, preserva_nulos)
        numero == to_numeric(str_replace(str_replace(str_strip(texto), ".", <<>>),
                                         ",", <<".">>))
    IN  IF numero = <<>> THEN 0 ELSE numero[1]

OperadoresCorteEmOrdem ==
    <<"A", "B", "Erro: Colunas ausentes no DF principal", NaoIdentificado>>

MateriaisEmOrdem == <<"M1", "M2">>

(* groupby(chave).agg(count, sum).reset_index(): one row per key present,  *)
(* in the text order of the keys.                                          *)
agrupar_cortes(tabela, campo, chaves) ==
    LET presentes == SelectSeq(chaves,
                         LAMBDA c : \E i \in Indices(tabela) : tabela[i][campo] = c)
    IN  [k \in Indices(presentes) |->
            LET grupo == SelectSeq(tabela, LAMBDA l : l[campo] = presentes[k])
            IN  [chave |-> presentes[k],
                 total_cortes |-> Len(grupo),
                 total_unidades |-> soma([i \in Indices(grupo) |-> <<grupo[i].QUANT_NT_NUM>>])]]

(* sort_values("total_cortes", ascending=False), default quicksort: every  *)
(* arrangement with non-increasing counts is a possible outcome.           *)
ordenar_por_total_cortes(contagem) ==
    {t \in [Indices(contagem) -> Imagem(contagem)] :
        /\ Imagem(t) = Imagem(contagem)
        /\ \A i, j \in Indices(t) : i < j => t[i].total_cortes >= t[j].total_cortes}

retorno_vazio ==
    [df_cortados |-> <<>>, total_cortes |-> 0, cortes_por_operador |-> <<>>,
     cortes_por_material |-> <<>>, total_unidades_cortadas |-> 0]

(* Lines 141-149: the rows of the depot when one is asked and the column   *)
(* exists, all rows otherwise.                                             *)
filtrar_deposito_cortes(tabela, cols, deposito) ==
    IF deposito # SemDeposito /\ "DEPOSITO" \in cols
    THEN SelectSeq(tabela, LAMBDA l : l.DEPOSITO = deposito)
    ELSE tabela

(* Lines 117-199: the set of bundles the call can return. *)
processar_dados_cortes(tabela, cols, deposito, preserva_nulos) ==
    IF tabela = <<>> THEN {retorno_vazio}
    ELSE LET df_filtrado == filtrar_deposito_cortes(tabela, cols, deposito)
             df_cortados_identificados == identificar_cortes(df_filtrado, cols, preserva_nulos)
         IN  IF df_cortados_identificados = <<>> THEN {retorno_vazio}
             ELSE LET com_operador ==
                          identificar_operador_corte(df_filtrado, cols, df_cortados_identificados)
                      df_cortados_com_operador ==
                          [k \in Indices(com_operador) |->
                              ComCampo([com_operador[k] EXCEPT
                                           !.QUANT_NT = astype_str_serie(@, preserva_nulos)],
                                       "QUANT_NT_NUM",
                                       quant_nt_num(com_operador[k].QUANT_NT, preserva_nulos))]
                  IN  {[df_cortados |-> df_cortados_com_operador,
                        total_cortes |-> Len(df_cortados_com_operador),
                        cortes_por_operador |-> por_operador,
                        cortes_por_material |-> por_material,
                        total_unidades_cortadas |->
                            soma([k \in Indices(df_cortados_com_operador) |->
                                     <<df_cortados_com_operador[k].QUANT_NT_NUM>>])] :
                          por_operador \in ordenar_por_total_cortes(
                              agrupar_cortes(df_cortados_com_operador, "OPERADOR_CORTE",
                                             OperadoresCorteEmOrdem)),
                          por_material \in ordenar_por_total_cortes(
                              agrupar_cortes(df_cortados_com_operador, "MATERIAL",
                                             MateriaisEmOrdem))}

ProcessarCortes(deposito) ==
    /\ \E preserva_nulos \in BOOLEAN :
         \E retorno \in processar_dados_cortes(df, colunas, deposito, preserva_nulos) :
             dados_cortes' = <<[deposito |-> deposito, retorno |-> retorno]>>
    /\ UNCHANGED <<filtrado, dados_processados>>
    /\ UNCHANGED <<histVars, tabVars, ambVars>>

DataZeradaBarra == <<"0", "0", "/", "0", "0", "/", "0", "0", "0", "0">>
DataZeradaPonto == <<"0", "0", ".", "0", "0", ".", "0", "0", "0", "0">>
DataZeradaPontoEspacos == <<" ", "0", "0", ".", "0", "0", ".", "0", "0", "0", "0", " ">>
DataZeradaIso == <<"0", "0", "0", "0", "-", "0", "0", "-", "0", "0">>
DataReal == <<"0", "1", "/", "0", "1", "/", "2", "0", "2", "5">>

(* Rows that differ in the finalized flag and the production date. *)
LinhasCondicaoCorte ==
    {LinhaCompleta("NT1", item, "A", "DP01", "OUTRO", QuantInteira, Txt0103Ponto, producao, "M1") :
        item \in {"X", "x", ""},
        producao \in {NaN, Vazio, DataZeradaBarra, DataZeradaPontoEspacos,
                      DataZeradaIso, DataReal}}

(* Rows that differ in work order and operator name, and are a cut of      *)
(* DP01, an open row of DP01 or an open row of DP40.                       *)
LinhasOperadorCorte ==
    {LinhaCompleta(nt, caso[1], nome, caso[2], "OUTRO", QuantInteira, Txt0103Ponto, Vazio, "M1") :
        nt \in NTs, nome \in {"", " ", "A", "B"},
        caso \in {<<"X", "DP01">>, <<"", "DP01">>, <<"", "DP40">>}}

(* Cut rows that differ in quantity text and material. *)
LinhasQuantidadeCorte ==
    {LinhaCompleta("NT1", "X", "A", "DP01", "OUTRO", quant, Txt0103Ponto, Vazio, material) :
        quant \in {QuantMilharVirgula, QuantPonto, QuantTexto, NaN},
        material \in {"M1", "M2"}}

InitCortes ==
    /\ InitHist
    /\ InitAmbiente
    /\ InitProcVazio
    /\ \/ /\ df \in TabelasAte(LinhasCondicaoCorte, MaxLinhasCortes)
                    \cup TabelasAte(LinhasOperadorCorte, MaxLinhasCortes)
                    \cup TabelasAte(LinhasQuantidadeCorte, MaxLinhasCortes)
          /\ colunas \in {ColunasCompletas, ColunasCompletas \ {"DEPOSITO"}}
       \/ /\ df \in TabelasAte(LinhasQuantidadeCorte, MaxLinhasCortes)
          /\ colunas \in {ColunasCompletas \ {c} :
                              c \in COLUNAS_NECESSARIAS_IDENTIFICAR_CORTES}
    /\ classificacao = <<>>
    /\ ranking = <<>>

NextCortes == \E deposito \in {SemDeposito, "DP01", "DP40"} : ProcessarCortes(deposito)

SpecCortes == InitCortes /\ [][NextCortes]_vars

(* The bundle processar_dados_cortes returned, after a call. *)
RetornoCortes == dados_cortes[1].retorno

(* The rows of the requested depot, or all rows when no depot is asked or  *)
(* there is no DEPOSITO column.                                            *)
BaseDoDeposito ==
    IF dados_cortes[1].deposito = SemDeposito \/ "DEPOSITO" \notin colunas THEN df
    ELSE SelectSeq(df, LAMBDA l : l.DEPOSITO = dados_cortes[1].deposito)

(* Finalized, in either case of the letter, and with a production date     *)
(* that is missing, blank or zeroed.                                       *)
EhCorte(l) ==
    /\ l.ITEM_FINALIZADO \in {"X", "x"}
    /\ \/ l.DT_PRODUCAO = NaN
       \/ Aparar(l.DT_PRODUCAO) \in {<<>>, DataZeradaIso, DataZeradaBarra, DataZeradaPonto}

(* C19: the cut rows are exactly the rows whose ITEM_FINALIZADO is "X" in  *)
(* either case and whose DT_PRODUCAO, trimmed, is empty (a blank or        *)
(* missing cell included) or 0000-00-00, 00/00/0000 or 00.00.0000.         *)
C19_Cortes ==
    (/\ dados_cortes # <<>>
     /\ COLUNAS_NECESSARIAS_IDENTIFICAR_CORTES \subseteq colunas)
        => LET esperados == SelectSeq(BaseDoDeposito, EhCorte)
           IN  /\ RetornoCortes.total_cortes = Len(esperados)
               /\ \A k \in Indices(RetornoCortes.df_cortados) :
                      /\ RetornoCortes.df_cortados[k].NUMERO_NT = esperados[k].NUMERO_NT
                      /\ RetornoCortes.df_cortados[k].NOME_USUARIO = esperados[k].NOME_USUARIO

(* The rows of the depot-filtered table that name an operator for an NT.   *)
LinhasComOperador(nt) ==
    {i \in Indices(BaseDoDeposito) :
        /\ BaseDoDeposito[i].NUMERO_NT = nt
        /\ BaseDoDeposito[i].NOME_USUARIO \notin {"", " "}}

(* C20: every cut row carries the NOME_USUARIO of the first row, in table  *)
(* order, of the depot-filtered table with its NUMERO_NT and a non-blank   *)
(* name, or "Não identificado" when there is none; cut rows of one         *)
(* NUMERO_NT carry the same operator.                                      *)
C20_OperadorCorte ==
    (/\ dados_cortes # <<>>
     /\ COLUNAS_DF_OPERADOR \subseteq colunas)
        => LET cortados == RetornoCortes.df_cortados
           IN  /\ \A k \in Indices(cortados) :
                      LET candidatas == LinhasComOperador(cortados[k].NUMERO_NT)
                      IN  IF candidatas = {}
                          THEN cortados[k].OPERADOR_CORTE = "Não identificado"
                          ELSE \E i \in candidatas :
                                   /\ \A j \in candidatas : i <= j
                                   /\ cortados[k].OPERADOR_CORTE = BaseDoDeposito[i].NOME_USUARIO
               /\ \A k1, k2 \in Indices(cortados) :
                      cortados[k1].NUMERO_NT = cortados[k2].NUMERO_NT
                          => cortados[k1].OPERADOR_CORTE = cortados[k2].OPERADOR_CORTE

(* A cut row that names operator A, after an open row of the same work     *)
(* order and depot that names operator B: the cut is attributed to B.      *)
C20_Witness ==
    /\ dados_cortes # <<>>
    /\ COLUNAS_DF_OPERADOR \subseteq colunas
    /\ dados_cortes[1].deposito = "DP01"
    /\ Len(df) = 2
    /\ df[1].NUMERO_NT = df[2].NUMERO_NT
    /\ df[1].ITEM_FINALIZADO = ""
    /\ df[1].NOME_USUARIO = "B"
    /\ df[1].DEPOSITO = "DP01"
    /\ Len(RetornoCortes.df_cortados) = 1
    /\ RetornoCortes.df_cortados[1].NOME_USUARIO = "A"
    /\ RetornoCortes.df_cortados[1].OPERADOR_CORTE = "B"

(* C21: processar_dados_cortes returns the empty bundle when the table is  *)
(* empty, when one of the six required columns is missing or when no row   *)
(* is a cut; with a depot asked and no DEPOSITO column it counts the cuts  *)
(* of all depots (with or without the rows whose date cell is missing).    *)
C21_RetornoVazio ==
    dados_cortes # <<>>
        => /\ (\/ df = <<>>
               \/ ~(COLUNAS_NECESSARIAS_IDENTIFICAR_CORTES \subseteq colunas)
               \/ \A i \in Indices(BaseDoDeposito) : ~EhCorte(BaseDoDeposito[i]))
                  => /\ RetornoCortes.df_cortados = <<>>
                     /\ RetornoCortes.total_cortes = 0
                     /\ RetornoCortes.total_unidades_cortadas = 0
                     /\ RetornoCortes.cortes_por_operador = <<>>
                     /\ RetornoCortes.cortes_por_material = <<>>
           /\ (dados_cortes[1].deposito # SemDeposito /\ "DEPOSITO" \notin colunas)
                  => RetornoCortes.total_cortes \in
                         {Len(SelectSeq(df, EhCorte)),
                          Len(SelectSeq(df, LAMBDA l : EhCorte(l) /\ l.DT_PRODUCAO # NaN))}

(* A table with a finalized row without production date, read without the *)
(* MATERIAL column: the empty bundle is returned.                          *)
C21_Witness ==
    /\ dados_cortes # <<>>
    /\ "MATERIAL" \notin colunas
    /\ Len(df) = 2
    /\ df[1].ITEM_FINALIZADO = "X"
    /\ df[1].DT_PRODUCAO = <<>>
    /\ RetornoCortes.df_cortados = <<>>
    /\ RetornoCortes.total_cortes = 0

----------------------------------------------------------------------------
(* The caller's table across the calls *)

NextEntrada ==
    \/ FiltrarDashboard
    \/ FiltrarOutrasTelas
    \/ \E deposito \in DepositosPedidos, tipo_tela \in TiposTela : Processar(deposito, tipo_tela)

(* Tables whose planned dates are today's with and without spaces, the    *)
(* day before's or missing, on 01.03.2025.                                 *)
InitEntrada ==
    /\ InitFiltro
    /\ hoje = Dia0103
    /\ \A i \in Indices(df) :
           /\ df[i].DT_PLANEJADA \in {Txt0103BarraEspacos, Txt0103Ponto, Txt2802Ponto, NaN}
           /\ df[i].DT_PRODUCAO = NaN

SpecEntrada == InitEntrada /\ [][NextEntrada]_vars

----------------------------------------------------------------------------
(* main_app: one render of the selected tab *)

Abas == {"Dashboard", "Cálculos", "Cortes", "Dados Brutos", "Logs"}

(* logistica_config.py, lines 32-35. *)
DEPOSITOS == [Mercearia |-> "DP01", Pereciveis |-> "DP40"]

(* Lines 41-50 with the Dashboard tab using the selected sector too. *)
deposito_da_aba_setor(aba, setor) == DEPOSITOS[setor]

(* Lines 41-50: "ambos" on the Dashboard tab, the depot of the selected    *)
(* sector on the others.                                                   *)
deposito_da_aba(aba, setor) == IF aba = "Dashboard" THEN "ambos" ELSE DEPOSITOS[setor]

(* Lines 109-154 with the Logs tab given a screen type of its own. *)
tipo_tela_da_aba_propria(aba) ==
    CASE aba = "Dashboard" -> "dashboard"
      [] aba = "Cálculos" -> "calculos"
      [] aba = "Cortes" -> "cortes"
      [] aba = "Dados Brutos" -> "dados_brutos"
      [] aba = "Logs" -> "logs"

(* Lines 109-154: the tipo_tela each tab passes to processar_dados. *)
tipo_tela_da_aba(aba) ==
    CASE aba = "Dashboard" -> "dashboard"
      [] aba = "Cálculos" -> "calculos"
      [] aba = "Cortes" -> "cortes"
      [] aba = "Dados Brutos" -> "dados_brutos"
      [] aba = "Logs" -> "dashboard"

(* Line 118 reached from the Logs tab as well. *)
registra_na_aba_logs(aba) == aba \in {"Dashboard", "Logs"}

(* Line 118: registrar_progresso is called in the Dashboard branch only. *)
registra_na_aba(aba) == aba = "Dashboard"

(* Lines 96-160.  The table is loaded (it may have been extracted again   *)
(* since the last render); an empty table stops the render; so does a      *)
(* processar_dados that returns no bundle; the Dashboard tab then          *)
(* registers the progress and the Cálculos tab asks for the forecast       *)
(* (logistica_calculos.py, line 415).                                      *)
Render(aba, setor, carregado, agora) ==
    LET deposito == deposito_da_aba(aba, setor)
        tipo_tela == tipo_tela_da_aba(aba)
        retorno == processar_dados(carregado, colunas, deposito, tipo_tela,
                                   USAR_NOVA_LOGICA_DATAS, hoje)
        com_dados == carregado # <<>> /\ retorno.tipo = "dict"
        timestamp == strftime(agora)
    IN  /\ df' = carregado
        /\ relogio' = agora
        /\ dados_processados' =
               IF carregado = <<>> THEN <<>>
               ELSE <<[aba |-> aba, deposito |-> deposito, tipo_tela |-> tipo_tela,
                       retorno |-> retorno]>>
        /\ IF com_dados /\ registra_na_aba(aba)
           THEN /\ historico_progresso' =
                       Podar(Inserir(historico_progresso, timestamp, deposito, retorno, agora))
                /\ chamadas' = chamadas + 1
                /\ carimbos' = carimbos \cup {timestamp}
                /\ ultima' = <<[dados |-> retorno, deposito |-> deposito,
                                agora |-> agora, timestamp |-> timestamp]>>
           ELSE UNCHANGED <<historico_progresso, chamadas, carimbos, ultima>>
        /\ previsao' =
               IF com_dados /\ aba = "Cálculos"
               THEN <<[deposito |-> deposito,
                       resultado |-> calcular_previsao_conclusao(historico_progresso, deposito)]>>
               ELSE <<>>
        /\ UNCHANGED <<colunas, classificacao, ranking, ambVars, filtrado, dados_cortes>>

LinhaApp(item, dep, planejada) ==
    LinhaCompleta("NT1", item, "A", dep, "OUTRO", QuantInteira, planejada, NaN, "M1")

(* The exports a render can find: none; two open rows; one of two rows     *)
(* finalized; two finalized rows, one of DP40 planned the day before; a    *)
(* row of an unknown depot; a finalized row planned the day before.        *)
TabelasApp ==
    {<<>>,
     <<LinhaApp("", "DP01", Txt0103Ponto), LinhaApp("", "DP01", Txt0103Ponto)>>,
     <<LinhaApp("X", "DP01", Txt0103Ponto), LinhaApp("", "DP01", Txt0103Ponto)>>,
     <<LinhaApp("X", "DP01", Txt0103Ponto), LinhaApp("X", "DP40", Txt2802Ponto)>>,
     <<LinhaApp("", "DP99", Txt0103Ponto)>>,
     <<LinhaApp("X", "DP01", Txt2802Ponto)>>}

InitApp ==
    /\ InitHist
    /\ InitAmbiente
    /\ InitProcVazio
    /\ df = <<>>
    /\ colunas = ColunasCompletas
    /\ classificacao = <<>>
    /\ ranking = <<>>

(* A render happens some time after the previous one: a fraction of a      *)
(* second or a whole second later.                                         *)
NextApp ==
    \E aba \in Abas, setor \in DOMAIN DEPOSITOS, carregado \in TabelasApp,
       passo \in {1, TicksPorSegundo} :
        /\ relogio + passo <= MaxTicksApp
        /\ Render(aba, setor, carregado, relogio + passo)

SpecApp == InitApp /\ [][NextApp]_vars

(* The render just made, and whether it got a bundle. *)
RenderComDados ==
    /\ dados_processados' # <<>>
    /\ dados_processados'[1].retorno.tipo = "dict"

(* C23: a render of the Dashboard tab whose processing returned a bundle   *)
(* registers the progress exactly once (one more call, with the snapshot   *)
(* of the bundle stored for the render's instant); every other render, of  *)
(* another tab or without data, leaves the history as it was.              *)
C23_RegistroPorRender ==
    [][relogio' # relogio =>
          IF RenderComDados /\ dados_processados'[1].aba = "Dashboard"
          THEN /\ chamadas' = chamadas + 1
               /\ strftime(relogio') \in DOMAIN historico_progresso'
               /\ dados_processados'[1].deposito \in DOMAIN historico_progresso'[strftime(relogio')]
               /\ LET reg == historico_progresso'[strftime(relogio')][dados_processados'[1].deposito]
                  IN  /\ reg.total = dados_processados'[1].retorno.total_linhas
                      /\ reg.finalizadas = dados_processados'[1].retorno.finalizadas
                      /\ reg.timestamp = relogio'
          ELSE /\ chamadas' = chamadas
               /\ historico_progresso' = historico_progresso]_vars

(* The Dashboard tab was rendered with data, then the Logs tab with data:  *)
(* one registration.                                                       *)
C23_Witness ==
    /\ chamadas = 1
    /\ Cardinality(DOMAIN historico_progresso) = 1
    /\ relogio > ultima[1].agora
    /\ dados_processados # <<>>
    /\ dados_processados[1].aba = "Logs"
    /\ dados_processados[1].retorno.tipo = "dict"

(* The window of the processing of the last render: the dashboard window   *)
(* is the one processar_dados applies for tipo_tela "dashboard" (lines     *)
(* 313-316).                                                               *)
JanelaDoRender ==
    IF dados_processados[1].tipo_tela = "dashboard" THEN "dashboard" ELSE "outras"

NaoAntes(fracao, t) == fracao[2] = 0 \/ fracao[1] >= t * fracao[2]

(* C30: a bundle has total_linhas >= 1 and 0 <= finalizadas <=             *)
(* total_linhas; so has every snapshot stored through main_app; and an     *)
(* 'ok' forecast over that history has itens_restantes >= 0 and a          *)
(* horario_conclusao not before the latest snapshot.                       *)
C30_Limites ==
    /\ (dados_processados # <<>> /\ dados_processados[1].retorno.tipo = "dict")
           => /\ dados_processados[1].retorno.total_linhas >= 1
              /\ dados_processados[1].retorno.finalizadas >= 0
              /\ dados_processados[1].retorno.finalizadas
                     <= dados_processados[1].retorno.total_linhas
    /\ \A ts \in DOMAIN historico_progresso : \A d \in DOMAIN historico_progresso[ts] :
           /\ 0 <= historico_progresso[ts][d].finalizadas
           /\ historico_progresso[ts][d].finalizadas <= historico_progresso[ts][d].total
    /\ \A d \in {"ambos", "DP01", "DP40"} :
           LET p == calcular_previsao_conclusao(historico_progresso, d)
           IN  p.status = "ok"
                   => /\ p.itens_restantes >= 0
                      /\ NaoAntes(p.horario_conclusao, p.ultimo_progresso[1].timestamp)

(* Two Dashboard renders a second apart, the second with one more row      *)
(* finalized and one still open: the forecast for "ambos" is 'ok'.         *)
C30_Witness ==
    /\ Cardinality(DOMAIN historico_progresso) = 2
    /\ calcular_previsao_conclusao(historico_progresso, "ambos").status = "ok"
    /\ calcular_previsao_conclusao(historico_progresso, "ambos").itens_restantes = 1

----------------------------------------------------------------------------
(* Claims about the history under a clock that never goes back *)

deposito_do_carimbo(ts) == deposito_do_segundo(ts[1] * 60 + ts[2])

(* The timestamps under which a call for depot d was made. *)
CarimbosDe(d) == {ts \in carimbos : deposito_do_carimbo(ts) = d}

Min(a, b) == IF a < b THEN a ELSE b

(* C25: the pruning keeps the last 20 records of each depot: when every    *)
(* call came in a second of its own, a depot that got n snapshots still    *)
(* holds min(20, n) of them, and they are its most recent ones.            *)
C25_VintePorDeposito ==
    chamadas = Cardinality(carimbos)
        => \A d \in Depositos :
               /\ TimestampsDe(d) \subseteq CarimbosDe(d)
               /\ Cardinality(TimestampsDe(d))
                      = Min(LimiteHistorico, Cardinality(CarimbosDe(d)))
               /\ \A fora \in CarimbosDe(d) \ TimestampsDe(d) :
                      \A dentro \in TimestampsDe(d) : TextoMenor(fora, dentro)

(* The snapshot the last call stored. *)
RegistroDaUltima ==
    [total |-> ultima[1].dados.total_linhas,
     finalizadas |-> ultima[1].dados.finalizadas,
     timestamp |-> ultima[1].agora]

(* C27: when the clock never goes back, the snapshot a call has just       *)
(* written is in the history after the call's pruning, it is the latest    *)
(* of its depot, and a forecast asked next for that depot reports it as    *)
(* ultimo_progresso.                                                       *)
C27_RecemEscritoFica ==
    ultima # <<>>
        => LET ts == ultima[1].timestamp
               d == ultima[1].deposito
           IN  /\ ts \in Timestamps
               /\ d \in DOMAIN historico_progresso[ts]
               /\ historico_progresso[ts][d] = RegistroDaUltima
               /\ Last(timestamps_deposito(historico_progresso, d)) = ts
               /\ (previsao # <<>> /\ previsao[1].deposito = d)
                      => previsao[1].resultado.ultimo_progresso = <<RegistroDaUltima>>

(* More than 20 timestamps were registered, the last call's pruning        *)
(* deleted one, and the forecast of the last call's depot was asked.       *)
C27_Witness ==
    /\ Cardinality(carimbos) > LimiteHistorico
    /\ Cardinality(Timestamps) = LimiteHistorico
    /\ previsao # <<>>
    /\ previsao[1].deposito = ultima[1].deposito
    /\ previsao[1].resultado.status # "insuficiente"

(* C28: when the clock never goes back, the instant stored in the latest   *)
(* snapshot of a depot is strictly later than the one stored in the        *)
(* snapshot before it, also after an overwrite within one second; so the   *)
(* forecast is 'sem_progresso' exactly when delta_finalizadas <= 0, and an *)
(* 'ok' forecast has a positive elapsed time and a positive rate.          *)
C28_TempoCresce ==
    \A d \in Depositos :
        Cardinality(TimestampsDe(d)) >= 2
            => LET p == calcular_previsao_conclusao(historico_progresso, d)
                   delta_finalizadas == UltimoDe(d).finalizadas - PenultimoDe(d).finalizadas
               IN  /\ UltimoDe(d).timestamp > PenultimoDe(d).timestamp
                   /\ (p.status = "sem_progresso") <=> (delta_finalizadas <= 0)
                   /\ p.status = "ok"
                          => /\ p.delta_tempo_min[1] > 0 /\ p.delta_tempo_min[2] > 0
                             /\ p.taxa_progresso[1] > 0 /\ p.taxa_progresso[2] > 0

(* A call overwrote the snapshot of its second (more calls than            *)
(* timestamps), the instant it stored is not a whole second, and the       *)
(* forecast of its depot is 'ok'.                                          *)
C28_Witness ==
    /\ chamadas > Cardinality(carimbos)
    /\ ultima # <<>>
    /\ ultima[1].agora % TicksPorSegundo # 0
    /\ Cardinality(TimestampsDe(ultima[1].deposito)) >= 2
    /\ calcular_previsao_conclusao(historico_progresso, ultima[1].deposito).status = "ok"

----------------------------------------------------------------------------
(* Claims that relate the cut detector to the aggregator *)

(* Row i of the table is a cut for identificar_cortes. *)
LinhaCortada(i, preserva_nulos) ==
    identificar_cortes(<<df[i]>>, colunas, preserva_nulos) # <<>>

(* C29: the cut detector and the aggregator agree on "finalized": a row    *)
(* identificar_cortes returns as a cut is counted in the finalizadas of    *)
(* processar_dados, makes an NT of its own "Finalizadas" for               *)
(* classificar_status and, when it names an operator, is a row of the      *)
(* ranking's finalized rows.                                               *)
C29_FinalizadoIgual ==
    (dados_cortes # <<>> /\ colunas = ColunasCompletas)
        => \A i \in Indices(df) : \A preserva_nulos \in BOOLEAN :
               LinhaCortada(i, preserva_nulos)
                   => LET b == processar_dados(<<df[i]>>, colunas, df[i].DEPOSITO,
                                               "dashboard", USAR_NOVA_LOGICA_DATAS, hoje)
                      IN  /\ b.tipo = "dict"
                          /\ b.finalizadas = 1
                          /\ classificar_status(<<df[i]>>) = "Finalizadas"
                          /\ df[i].NOME_USUARIO # ""
                                 => finalizados_com_usuario(<<df[i]>>) # <<>>

====
